---- MODULE Spec2Model ----
(***************************************************************************)
(* A model of src/utils.py: the LPIPS perceptual metric (construction,     *)
(* checkpoint loading, evaluation), the ResNet autoencoder (VAE) and the   *)
(* PatchDiscriminator.                                                     *)
(*                                                                         *)
(* Tensors are modelled by their exact shape <<B, C, H, W>>.  Where values *)
(* matter (LPIPS.forward) a tensor also carries the values of one          *)
(* representative spatial position in fixed point (thousandths for image   *)
(* values, hundredths for normalized activations).                         *)
(***************************************************************************)
EXTENDS Integers, Sequences, FiniteSets

VARIABLES
    file,       \* the local file "vgg.pth"
    net,        \* whether the network is reachable
    hubCache,   \* whether torchvision's vgg16 weights are in the local hub cache
    pc,         \* position of the construction LPIPS.__init__
    inst,       \* the LPIPS object: parameters, buffers, flags
    data,       \* local variable `data` of load_from_pretrained
    log,        \* one record per construction: what it saw and did
    last,       \* the last call of LPIPS.forward and its outcome
    vae,        \* one call of VAE.forward: input, latent, reconstruction
    disc        \* one call of PatchDiscriminator.forward, layer by layer

vars == <<file, net, hubCache, pc, inst, data, log, last, vae, disc>>

-----------------------------------------------------------------------------
(* Bounds of the model *)

\* number of constructions of LPIPS explored against one file system
MaxCtor == 2
\* checkpoint and initial weights range over -MaxW..MaxW
MaxW == 1
\* images are uniform gray images with gray level 0..MaxGray (in halves)
MaxGray == 1
\* heights and widths of the inputs of the autoencoder and the discriminator
MaxSide == 17
\* batch sizes of the inputs of the autoencoder and the discriminator
MaxBatch == 2

-----------------------------------------------------------------------------
(* Generic helpers *)

Abs(x) == IF x < 0 THEN -x ELSE x

Sgn(x) == IF x < 0 THEN -1 ELSE IF x > 0 THEN 1 ELSE 0

Last(s) == s[Len(s)]

RECURSIVE IsqrtIter(_, _, _)
IsqrtIter(n, lo, hi) ==
    IF lo >= hi THEN lo
    ELSE LET mid == (lo + hi + 1) \div 2
         IN  IF mid * mid <= n THEN IsqrtIter(n, mid, hi)
                               ELSE IsqrtIter(n, lo, mid - 1)

\* torch.sqrt on a fixed-point value: the integer square root
Isqrt(n) == IsqrtIter(n, 0, n)

\* float division, truncated symmetrically in fixed point
FDiv(a, b) == Sgn(a) * Sgn(b) * (Abs(a) \div Abs(b))

-----------------------------------------------------------------------------
(* Tensors and shapes *)

\* the result of an operation that raised
Err == [shape |-> <<>>, v |-> <<>>]

IsErr(t) == t.shape = <<>>

\* torch broadcasting of two rank-4 shapes
BroadcastOk(s, t) ==
    \A i \in 1..4 : s[i] = t[i] \/ s[i] = 1 \/ t[i] = 1

BroadcastShape(s, t) ==
    [i \in 1..4 |-> IF s[i] = 1 THEN t[i] ELSE s[i]]

-----------------------------------------------------------------------------
(* The LPIPS object *)

\* self.chns, the channel count of each of the five backbone outputs
chns == <<64, 128, 256, 512, 512>>

Levels == 1..Len(chns)

\* Channels of an activation map that the model carries values for.
ModelChans == {1}

\* the attribute names lin0 .. lin4
LinName(k) == <<"lin0", "lin1", "lin2", "lin3", "lin4">>[k]

LinNames == {LinName(k) : k \in Levels}

\* the parameters of an LPIPS object: the backbone's and the five projections
Params == {"net"} \cup LinNames

\* use_dropout=True, the default argument of LPIPS.__init__
use_dropout_default == TRUE

\* the weights of the five 1x1 projections, all equal to one
UnitW == [k \in Levels |-> [c \in ModelChans |-> 1]]

\* weights that differ from UnitW at one level and channel
Deviate(k, c, v) == [UnitW EXCEPT ![k][c] = v]

Profiles == {Deviate(k, c, v) : k \in Levels, c \in ModelChans, v \in -MaxW..MaxW}

\* the weights a freshly built NetLinLayer may hold (a random initialisation)
InitProfiles == {UnitW} \cup {Deviate(1, c, -MaxW) : c \in ModelChans}

\* nn.Module.__init__, ScalingLayer() and self.chns
NewModule(use_dropout) ==
    [training    |-> TRUE,
     use_dropout |-> use_dropout,
     shift       |-> <<-30, -88, -188>>,
     scale       |-> <<458, 448, 450>>,
     netw        |-> "none",
     w           |-> <<>>,
     rg          |-> <<>>]

\* no object has been built yet
NoInst ==
    [training |-> FALSE, use_dropout |-> FALSE, shift |-> <<>>, scale |-> <<>>,
     netw |-> "none", w |-> <<>>, rg |-> <<>>]

\* self.net = vgg16(pretrained=True, requires_grad=False)
WithBackbone(i) ==
    [i EXCEPT !.netw = "torchvision",
              !.rg = [p \in (DOMAIN i.rg) \cup {"net"} |->
                        IF p = "net" THEN FALSE ELSE i.rg[p]]]

\* self.lin0 .. self.lin4 = NetLinLayer(...), freshly initialised to w0
WithLins(i, w0) ==
    [i EXCEPT !.w = w0,
              !.rg = [p \in (DOMAIN i.rg) \cup LinNames |->
                        IF p \in LinNames THEN TRUE ELSE i.rg[p]]]

\* index of the Conv2d inside NetLinLayer.model: 1 after a Dropout, else 0
ConvIndex(use_dropout) == IF use_dropout THEN 1 ELSE 0

\* Faulty variant: only the backbone's parameters are frozen.
FreezeBackboneOnly(i) ==
    [i EXCEPT !.rg = [p \in DOMAIN i.rg |-> IF p = "net" THEN FALSE ELSE i.rg[p]]]

\* for param in self.parameters(): param.requires_grad = False
FreezeParams(i) == [i EXCEPT !.rg = [p \in DOMAIN i.rg |-> FALSE]]

AllFrozen(i) == DOMAIN i.rg = Params /\ \A p \in Params : ~i.rg[p]

-----------------------------------------------------------------------------
(* The checkpoint file and the module's names *)

NoFile == [kind |-> "missing", idx |-> 0, w |-> <<>>]

CorruptFile == [kind |-> "corrupt", idx |-> 0, w |-> <<>>]

\* a checkpoint whose keys are lin<k>.model.<idx>.weight, with values w
Blob(idx, w) == [kind |-> "ckpt", idx |-> idx, w |-> w]

NoData == [kind |-> "none", idx |-> 0, w |-> <<>>]

\* the checkpoint served at the URL of load_from_pretrained
RemoteBlob == Blob(1, UnitW)

Files ==
    {NoFile, CorruptFile, Blob(0, UnitW)} \cup {Blob(1, p) : p \in Profiles}

\* the names bound at module level: the imports and the definitions
ModuleGlobals ==
    {"namedtuple", "torch", "nn", "models", "LPIPS", "ScalingLayer",
     "NetLinLayer", "vgg16", "normalize_tensor", "spatial_average", "ResBlock",
     "ResNetEncoder", "ResNetDecoder", "VAE", "PatchDiscriminator"}

\* torch.load("vgg.pth"): the exception it raises, or "ok"
TorchLoad(f) ==
    CASE f.kind = "ckpt"    -> "ok"
      [] f.kind = "missing" -> "FileNotFoundError"
      [] f.kind = "corrupt" -> "UnpicklingError"

\* the event a read of the file leaves in the log
ReadEvent(f) ==
    CASE f.kind = "ckpt"    -> "read_ok"
      [] f.kind = "missing" -> "read_missing"
      [] f.kind = "corrupt" -> "read_corrupt"

\* wget <url>: saves to vgg.pth when no such file exists (else to vgg.pth.1)
Wget(f, n) == IF n /\ f.kind = "missing" THEN RemoteBlob ELSE f

\* Faulty variant: the except clause swallows the failure and goes on
\* without data.
ExceptClauseSwallow(f, n, ev) ==
    [file |-> f, ev |-> ev, data |-> NoData, exc |-> "none"]

\* The except clause of load_from_pretrained, after its print: the lookup of
\* the name os, then os.system(wget ...), then the second torch.load.
ExceptClause(f, n, ev) ==
    IF "os" \in ModuleGlobals
    THEN LET f2 == Wget(f, n)
         IN  [file |-> f2,
              ev   |-> ev \o <<"fetch", ReadEvent(f2)>>,
              data |-> IF TorchLoad(f2) = "ok" THEN f2 ELSE NoData,
              exc  |-> IF TorchLoad(f2) = "ok" THEN "none" ELSE TorchLoad(f2)]
    ELSE [file |-> f, ev |-> ev, data |-> NoData, exc |-> "NameError"]

\* self.load_state_dict(data, strict=False): matching keys are copied
LoadStateDict(i, d) ==
    IF d.idx = ConvIndex(i.use_dropout) THEN [i EXCEPT !.w = d.w] ELSE i

-----------------------------------------------------------------------------
(* Layer shape arithmetic (torch.nn), on shapes <<B, C, H, W>>; <<>> = raised *)

\* floor((h + 2p - k) / s) + 1
ConvOut(h, k, s, p) == ((h + 2 * p - k) \div s) + 1

\* nn.Conv2d(cin, cout, kernel_size=k, stride=s, padding=p)
Conv2d(x, cin, cout, k, s, p) ==
    IF x = <<>> \/ x[2] # cin \/ x[3] + 2 * p < k \/ x[4] + 2 * p < k
    THEN <<>>
    ELSE <<x[1], cout, ConvOut(x[3], k, s, p), ConvOut(x[4], k, s, p)>>

\* nn.MaxPool2d(kernel_size=k, stride=s, padding=p)
MaxPool2d(x, k, s, p) ==
    IF x = <<>> \/ x[3] + 2 * p < k \/ x[4] + 2 * p < k
    THEN <<>>
    ELSE <<x[1], x[2], ConvOut(x[3], k, s, p), ConvOut(x[4], k, s, p)>>

\* (h - 1) s - 2p + k
ConvTransposeOut(h, k, s, p) == (h - 1) * s - 2 * p + k

\* nn.ConvTranspose2d(cin, cout, kernel_size=k, stride=s, padding=p)
ConvTranspose2d(x, cin, cout, k, s, p) ==
    IF x = <<>> \/ x[2] # cin
    THEN <<>>
    ELSE <<x[1], cout, ConvTransposeOut(x[3], k, s, p),
           ConvTransposeOut(x[4], k, s, p)>>

\* nn.GroupNorm(groups, c)
GroupNorm(x, groups, c) ==
    IF x = <<>> \/ x[2] # c \/ c % groups # 0 THEN <<>> ELSE x

-----------------------------------------------------------------------------
(* The backbone: class vgg16 *)

VggConv(cin, cout) == [kind |-> "conv", cin |-> cin, cout |-> cout]
VggReLU == [kind |-> "relu", cin |-> 0, cout |-> 0]
VggPool == [kind |-> "pool", cin |-> 0, cout |-> 0]

\* models.vgg16(...).features, modules 0..30 (here 1..31)
VggFeatures ==
    <<VggConv(3, 64), VggReLU, VggConv(64, 64), VggReLU, VggPool,
      VggConv(64, 128), VggReLU, VggConv(128, 128), VggReLU, VggPool,
      VggConv(128, 256), VggReLU, VggConv(256, 256), VggReLU,
      VggConv(256, 256), VggReLU, VggPool,
      VggConv(256, 512), VggReLU, VggConv(512, 512), VggReLU,
      VggConv(512, 512), VggReLU, VggPool,
      VggConv(512, 512), VggReLU, VggConv(512, 512), VggReLU,
      VggConv(512, 512), VggReLU, VggPool>>

\* range(lo, hi) of the loop that fills slice k
SliceRange(k) == << <<0, 4>>, <<4, 9>>, <<9, 16>>, <<16, 23>>, <<23, 30>> >>[k]

VggLayer(x, l) ==
    CASE l.kind = "conv" -> Conv2d(x, l.cin, l.cout, 3, 1, 1)
      [] l.kind = "relu" -> x
      [] l.kind = "pool" -> MaxPool2d(x, 2, 2, 0)

\* applies features[lo], ..., features[hi - 1]
RECURSIVE VggRun(_, _, _)
VggRun(x, lo, hi) ==
    IF lo >= hi THEN x ELSE VggRun(VggLayer(x, VggFeatures[lo + 1]), lo + 1, hi)

\* The activation of channel c at level k for an input with channel values xv:
\* the pretrained backbone is a fixed function of its input (ReLU outputs, so
\* never negative); this one stands for it.
Feat(xv, k, c) == ((xv[1] + xv[2] + xv[3]) \div (1500 * k * c)) % 3

\* slices k, k+1, ... applied in turn to h, the output of slice k-1
RECURSIVE vgg16_slices(_, _, _)
vgg16_slices(xv, h, k) ==
    IF k > Len(chns) THEN <<>>
    ELSE LET hk == VggRun(h, SliceRange(k)[1], SliceRange(k)[2])
         IN  <<[shape |-> hk, v |-> [c \in ModelChans |-> Feat(xv, k, c)]]>>
               \o vgg16_slices(xv, hk, k + 1)

\* vgg16.forward: the five activation maps, or <<>> when a layer raised
vgg16_forward(X) ==
    IF IsErr(X) THEN <<>>
    ELSE LET outs == vgg16_slices(X.v, X.shape, 1)
         IN  IF IsErr(outs[Len(chns)]) THEN <<>> ELSE outs

-----------------------------------------------------------------------------
(* LPIPS.forward *)

\* the shapes of the images passed to forward
ImageShapes ==
    {<<1, 3, 16, 16>>, <<1, 1, 16, 16>>, <<1, 2, 16, 16>>, <<1, 3, 32, 16>>}

\* an image: a shape and a gray level, the same at every pixel and channel
Images == [shape : ImageShapes, g : 0..MaxGray]

\* the tensor of an image, values in thousandths
ImageTensor(img) ==
    [shape |-> img.shape, v |-> [c \in 1..img.shape[2] |-> 500 * img.g]]

\* ScalingLayer.forward: (inp - self.shift) / self.scale, with broadcasting
ScalingLayer_forward(i, inp) ==
    LET bs == <<1, Len(i.shift), 1, 1>>
    IN  IF ~BroadcastOk(inp.shape, bs)
        THEN Err
        ELSE [shape |-> BroadcastShape(inp.shape, bs),
              v     |-> [c \in 1..Len(i.shift) |->
                           FDiv((inp.v[IF inp.shape[2] = 1 THEN 1 ELSE c]
                                   - i.shift[c]) * 1000,
                                i.scale[c])]]

RECURSIVE SumOver(_, _)
SumOver(f, S) ==
    IF S = {} THEN 0
    ELSE LET c == CHOOSE c \in S : TRUE IN f[c] + SumOver(f, S \ {c})

\* normalize_tensor: x / (sqrt(sum(x**2, dim=1)) + eps), in hundredths; eps
\* is below the resolution and only keeps 0 / (0 + eps) equal to 0
normalize_tensor(x) ==
    LET norm_factor == Isqrt(SumOver([c \in DOMAIN x.v |-> (100 * x.v[c]) * (100 * x.v[c])],
                                     DOMAIN x.v))
    IN  [shape |-> x.shape,
         v     |-> [c \in DOMAIN x.v |->
                      IF norm_factor = 0 THEN 0
                      ELSE FDiv(100 * x.v[c] * 100, norm_factor)]]

\* Faulty variant: the difference is not squared.
SquaredDiffNoSquare(f0, f1) ==
    IF ~BroadcastOk(f0.shape, f1.shape)
    THEN Err
    ELSE [shape |-> BroadcastShape(f0.shape, f1.shape),
          v     |-> [c \in DOMAIN f0.v |-> f0.v[c] - f1.v[c]]]

\* (feats0[kk] - feats1[kk]) ** 2
SquaredDiff(f0, f1) ==
    IF ~BroadcastOk(f0.shape, f1.shape)
    THEN Err
    ELSE [shape |-> BroadcastShape(f0.shape, f1.shape),
          v     |-> [c \in DOMAIN f0.v |-> (f0.v[c] - f1.v[c]) * (f0.v[c] - f1.v[c])]]

\* the masks nn.Dropout() may draw for one activation vector
Masks == [ModelChans -> {0, 1}]

\* nn.Dropout(): in training mode each element is zeroed or doubled (p = 0.5)
Dropout(i, x, m) ==
    IF i.training THEN [x EXCEPT !.v = [c \in DOMAIN x.v |-> x.v[c] * m[c] * 2]]
    ELSE x

\* lins[kk].model: the optional Dropout, then the bias-free 1x1 Conv2d
NetLinLayer_model(i, k, x, m) ==
    LET y == IF i.use_dropout THEN Dropout(i, x, m) ELSE x
    IN  [shape |-> Conv2d(y.shape, chns[k], 1, 1, 1, 0),
         v     |-> SumOver([c \in DOMAIN y.v |-> i.w[k][c] * y.v[c]], DOMAIN y.v)]

\* x.mean([2, 3], keepdim=True)
spatial_average(x) == [shape |-> <<x.shape[1], x.shape[2], 1, 1>>, v |-> x.v]

\* the values res[kk] may take: one per dropout mask
ResOutcomes(i, k, d) ==
    {spatial_average(NetLinLayer_model(i, k, d, m)) : m \in Masks}

\* the lists res[0..k-1] the comprehension may build
RECURSIVE ResLists(_, _, _)
ResLists(i, diffs, k) ==
    IF k = 0 THEN {<<>>}
    ELSE LET outcomes == ResOutcomes(i, k, diffs[k])
         IN  {Append(r, o) : r \in ResLists(i, diffs, k - 1), o \in outcomes}

\* val = res[0]; for l in range(1, len(self.chns)): val += res[l]
RECURSIVE Accumulate(_, _)
Accumulate(res, l) ==
    IF l = 1 THEN res[1]
    ELSE LET val == Accumulate(res, l - 1)
         IN  [shape |-> BroadcastShape(val.shape, res[l].shape), v |-> val.v + res[l].v]

Raised == [status |-> "error", val |-> 0, shape |-> <<>>]

Returned(val) == [status |-> "ok", val |-> val.v, shape |-> val.shape]

\* the loop over kk: feats0[kk], feats1[kk] and diffs[kk], from level k on
RECURSIVE Diffs(_, _, _)
Diffs(outs0, outs1, k) ==
    IF k > Len(chns) THEN <<>>
    ELSE <<SquaredDiff(normalize_tensor(outs0[k]), normalize_tensor(outs1[k]))>>
           \o Diffs(outs0, outs1, k + 1)

\* forward up to the loop over kk: scaling_layer, net, normalize_tensor and
\* the squared differences; <<>> when one of them raised
DiffsOf(shift, scale, input, target) ==
    LET bufs  == [shift |-> shift, scale |-> scale]
        in0   == ScalingLayer_forward(bufs, ImageTensor(input))
        in1   == ScalingLayer_forward(bufs, ImageTensor(target))
        outs0 == vgg16_forward(in0)
        outs1 == vgg16_forward(in1)
    IN  IF outs0 = <<>> \/ outs1 = <<>>
        THEN <<>>
        ELSE LET diffs == Diffs(outs0, outs1, 1)
             IN  IF \E kk \in Levels : IsErr(diffs[kk]) THEN <<>> ELSE diffs

\* LPIPS.forward computed step by step: every result forward(input, target)
\* may produce on the object i, one per choice of dropout masks
LPIPS_forward(i, input, target) ==
    LET diffs == DiffsOf(i.shift, i.scale, input, target)
    IN  IF diffs = <<>>
        THEN {Raised}
        ELSE {Returned(Accumulate(res, Len(chns))) :
                 res \in ResLists(i, diffs, Len(chns))}

\* what forward reads of the object: mode, buffers and projection weights
ForwardState(i) ==
    [training |-> i.training, use_dropout |-> i.use_dropout,
     shift |-> i.shift, scale |-> i.scale, w |-> i.w]

\* LPIPS_forward on the objects LPIPS() may build, tabulated once: per
\* object state one row per input, per input one entry per target
ForwardTable ==
    {[state |-> ForwardState(o),
      rows  |-> {[input |-> a,
                  row   |-> {[target |-> b, out |-> LPIPS_forward(o, a, b)] :
                               b \in Images}] :
                   a \in Images}] :
        o \in {[NewModule(use_dropout_default) EXCEPT !.w = p] : p \in Profiles}}

\* LPIPS.forward(input, target) on the object i
forward(i, input, target) ==
    IF \E t \in ForwardTable : t.state = ForwardState(i)
    THEN LET rows == (CHOOSE t \in ForwardTable : t.state = ForwardState(i)).rows
             row  == (CHOOSE r \in rows : r.input = input).row
         IN  (CHOOSE e \in row : e.target = target).out
    ELSE LPIPS_forward(i, input, target)

NoImage == [shape |-> <<>>, g |-> 0]

NoCall ==
    [input |-> NoImage, target |-> NoImage, status |-> "none", val |-> 0,
     shape |-> <<>>]

-----------------------------------------------------------------------------
(* Construction and evaluation of the perceptual metric *)

NoVAE == [pc |-> "idle", x |-> <<>>, latent |-> <<>>, recon |-> <<>>]

NoDisc == [pc |-> "idle", x |-> <<>>, i |-> 0, h |-> <<>>]

Init ==
    /\ file \in Files
    /\ net \in BOOLEAN
    /\ hubCache \in BOOLEAN
    /\ pc = "idle"
    /\ inst = NoInst
    /\ data = NoData
    /\ log = <<>>
    /\ last = NoCall
    /\ vae = NoVAE
    /\ disc = NoDisc

\* the log with events e appended to the running construction's
LogEv(e) == [log EXCEPT ![Len(log)].ev = @ \o e]

\* the log with the running construction ended by `outcome`
LogEnd(l, outcome) == [l EXCEPT ![Len(l)].outcome = outcome]

\* LPIPS(): super().__init__(), self.scaling_layer, self.chns
BeginInit ==
    /\ inst' = NewModule(use_dropout_default)
    /\ data' = NoData
    /\ log' = Append(log, [file0 |-> file, net |-> net, ev |-> <<>>,
                           outcome |-> "running"])
    /\ last' = NoCall
    /\ pc' = "backbone"
    /\ UNCHANGED <<file, net, hubCache, vae, disc>>

\* the first LPIPS() of the process
Construct ==
    /\ pc = "idle"
    /\ BeginInit

\* a later LPIPS(), once the previous construction has ended
Reconstruct ==
    /\ pc \in {"ready", "failed"}
    /\ Len(log) < MaxCtor
    /\ BeginInit

\* self.net = vgg16(pretrained=True, requires_grad=False): torchvision reads
\* its weights from the hub cache, downloading them first when absent
BuildBackbone ==
    /\ pc = "backbone"
    /\ IF hubCache \/ net
       THEN /\ hubCache' = TRUE
            /\ inst' = WithBackbone(inst)
            /\ pc' = "lins"
            /\ UNCHANGED log
       ELSE /\ pc' = "failed"
            /\ log' = LogEnd(log, "URLError")
            /\ UNCHANGED <<hubCache, inst>>
    /\ UNCHANGED <<file, net, data, last, vae, disc>>

\* self.lin0 .. self.lin4 = NetLinLayer(...): randomly initialised weights
BuildLins ==
    /\ pc = "lins"
    /\ \E w0 \in InitProfiles : inst' = WithLins(inst, w0)
    /\ pc' = "load"
    /\ UNCHANGED <<file, net, hubCache, data, log, last, vae, disc>>

\* load_from_pretrained, the try block: torch.load("vgg.pth")
FirstRead ==
    /\ pc = "load"
    /\ log' = LogEv(<<ReadEvent(file)>>)
    /\ IF TorchLoad(file) = "ok"
       THEN data' = file /\ pc' = "load_state_dict"
       ELSE data' = data /\ pc' = "except"
    /\ UNCHANGED <<file, net, hubCache, inst, last, vae, disc>>

\* load_from_pretrained, the except clause: print, os.system, torch.load
HandleFailure ==
    /\ pc = "except"
    /\ LET r == ExceptClause(file, net, Last(log).ev \o <<"print">>)
       IN  /\ file' = r.file
           /\ data' = r.data
           /\ IF r.exc = "none"
              THEN /\ pc' = "load_state_dict"
                   /\ log' = [log EXCEPT ![Len(log)].ev = r.ev]
              ELSE /\ pc' = "failed"
                   /\ log' = LogEnd([log EXCEPT ![Len(log)].ev = r.ev], r.exc)
    /\ UNCHANGED <<net, hubCache, inst, last, vae, disc>>

\* self.load_state_dict(data, strict=False)
ApplyStateDict ==
    /\ pc = "load_state_dict"
    /\ inst' = LoadStateDict(inst, data)
    /\ log' = LogEv(<<"load_state_dict">>)
    /\ pc' = "freeze"
    /\ UNCHANGED <<file, net, hubCache, data, last, vae, disc>>

\* the loop over self.parameters() that ends __init__; LPIPS() then returns
Freeze ==
    /\ pc = "freeze"
    /\ inst' = FreezeParams(inst)
    /\ log' = LogEnd(log, "ok")
    /\ pc' = "ready"
    /\ UNCHANGED <<file, net, hubCache, data, last, vae, disc>>

\* a call lpips(input, target) on the constructed object
Evaluate ==
    /\ pc = "ready"
    /\ \E a \in Images, b \in Images :
         \E o \in forward(inst, a, b) :
            last' = [input |-> a, target |-> b, status |-> o.status,
                     val |-> o.val, shape |-> o.shape]
    /\ UNCHANGED <<file, net, hubCache, pc, inst, data, log, vae, disc>>

\* the network becomes reachable or unreachable between constructions
NetChange ==
    /\ pc \in {"idle", "ready", "failed"}
    /\ net' = ~net
    /\ UNCHANGED <<file, hubCache, pc, inst, data, log, last, vae, disc>>

\* one metric object: its construction, then evaluations
Next ==
    \/ Construct
    \/ BuildBackbone
    \/ BuildLins
    \/ FirstRead
    \/ HandleFailure
    \/ ApplyStateDict
    \/ Freeze
    \/ Evaluate

Spec == Init /\ [][Next]_vars

\* constructions one after another against the same file system and network
NextLoad ==
    \/ Construct
    \/ Reconstruct
    \/ BuildBackbone
    \/ BuildLins
    \/ FirstRead
    \/ HandleFailure
    \/ ApplyStateDict
    \/ Freeze
    \/ NetChange

SpecLoad == Init /\ [][NextLoad]_vars

-----------------------------------------------------------------------------
(* The autoencoder: ResBlock, ResNetEncoder, ResNetDecoder, VAE *)

\* latent_dim=256, the default of VAE.__init__
latent_dim == 256

\* int(64 * width_mult) with width_mult=1.0
base_channels == 64

\* groups=8, the default of ResNetEncoder and ResNetDecoder
groups == 8

\* in_channels=3 of the encoder, out_channels=3 of the decoder
image_channels == 3

\* `out += identity`: identity must broadcast to the shape of out
AddInPlace(out, identity) ==
    IF out = <<>> \/ identity = <<>> THEN <<>>
    ELSE IF BroadcastOk(out, identity) /\ BroadcastShape(out, identity) = out
         THEN out
         ELSE <<>>

\* ResBlock(cin, cout, stride, groups).forward
ResBlock_forward(x, cin, cout, stride, g) ==
    LET identity == IF stride # 1 \/ cin # cout
                    THEN GroupNorm(Conv2d(x, cin, cout, 1, stride, 0), g, cout)
                    ELSE x
        out1 == GroupNorm(Conv2d(x, cin, cout, 3, stride, 1), g, cout)
        out2 == GroupNorm(Conv2d(out1, cout, cout, 3, 1, 1), g, cout)
    IN  AddInPlace(out2, identity)

\* ResNetEncoder.forward: initial_conv, layer1, final_conv
ResNetEncoder_forward(x) ==
    LET c0 == Conv2d(x, image_channels, base_channels, 7, 2, 3)
        n0 == GroupNorm(c0, groups, base_channels)
        p0 == MaxPool2d(n0, 3, 2, 1)
        l1 == ResBlock_forward(p0, base_channels, base_channels * 2, 2, groups)
    IN  Conv2d(l1, base_channels * 2, latent_dim, 1, 1, 0)

\* Faulty variant: the last transpose convolution upsamples by 2, not by 4.
ResNetDecoderStride2(z) ==
    LET c0 == ConvTranspose2d(z, latent_dim, base_channels * 2, 1, 1, 0)
        r1 == ResBlock_forward(c0, base_channels * 2, base_channels * 2, 1, groups)
        u1 == ConvTranspose2d(r1, base_channels * 2, base_channels, 4, 2, 1)
        n1 == GroupNorm(u1, groups, base_channels)
        r2 == ResBlock_forward(n1, base_channels, base_channels, 1, groups)
    IN  ConvTranspose2d(r2, base_channels, image_channels, 4, 2, 1)

\* ResNetDecoder.forward: initial_conv, layer1, layer2, tanh
ResNetDecoder_forward(z) ==
    LET c0 == ConvTranspose2d(z, latent_dim, base_channels * 2, 1, 1, 0)
        r1 == ResBlock_forward(c0, base_channels * 2, base_channels * 2, 1, groups)
        u1 == ConvTranspose2d(r1, base_channels * 2, base_channels, 4, 2, 1)
        n1 == GroupNorm(u1, groups, base_channels)
        r2 == ResBlock_forward(n1, base_channels, base_channels, 1, groups)
    IN  ConvTranspose2d(r2, base_channels, image_channels, 4, 4, 0)

\* shapes of the tensors passed to VAE.forward
VAEInputs ==
    {<<b, c, h, w>> : b \in 1..MaxBatch, c \in {1, image_channels},
                      h \in 1..MaxSide, w \in 1..MaxSide}

InitNets ==
    /\ file = NoFile
    /\ net = FALSE
    /\ hubCache = FALSE
    /\ pc = "idle"
    /\ inst = NoInst
    /\ data = NoData
    /\ log = <<>>
    /\ last = NoCall
    /\ vae = NoVAE
    /\ disc = NoDisc

lpipsVars == <<file, net, hubCache, pc, inst, data, log, last>>

\* a call vae(x)
VAECall ==
    /\ vae.pc \in {"idle", "done", "raised"}
    /\ \E x \in VAEInputs :
         vae' = [pc |-> "encode", x |-> x, latent |-> <<>>, recon |-> <<>>]
    /\ UNCHANGED <<lpipsVars, disc>>

\* latent = self.encoder(x)
Encode ==
    /\ vae.pc = "encode"
    /\ LET latent == ResNetEncoder_forward(vae.x)
       IN  vae' = [vae EXCEPT !.latent = latent,
                              !.pc = IF latent = <<>> THEN "raised" ELSE "decode"]
    /\ UNCHANGED <<lpipsVars, disc>>

\* reconstruction = self.decoder(latent); return reconstruction, latent
Decode ==
    /\ vae.pc = "decode"
    /\ LET recon == ResNetDecoder_forward(vae.latent)
       IN  vae' = [vae EXCEPT !.recon = recon,
                              !.pc = IF recon = <<>> THEN "raised" ELSE "done"]
    /\ UNCHANGED <<lpipsVars, disc>>

NextVAE == VAECall \/ Encode \/ Decode

SpecVAE == InitNets /\ [][NextVAE]_vars

-----------------------------------------------------------------------------
(* PatchDiscriminator *)

DConv(cin, cout, k, s, p) ==
    [kind |-> "Conv2d", cin |-> cin, cout |-> cout, k |-> k, s |-> s, p |-> p,
     g |-> 0]

DNorm(g, c) ==
    [kind |-> "GroupNorm", cin |-> c, cout |-> c, k |-> 0, s |-> 0, p |-> 0,
     g |-> g]

DLeaky ==
    [kind |-> "LeakyReLU", cin |-> 0, cout |-> 0, k |-> 0, s |-> 0, p |-> 0,
     g |-> 0]

\* Faulty variant: the last convolution has no padding.
discriminatorNoPad ==
    <<DConv(3, 64, 4, 2, 1), DLeaky,
      DConv(64, 128, 4, 2, 1), DNorm(8, 128), DLeaky,
      DConv(128, 256, 4, 2, 1), DNorm(8, 256), DLeaky,
      DConv(256, 1, 4, 2, 0)>>

\* self.discriminator = nn.Sequential(...), with in_channels=3
discriminator ==
    <<DConv(3, 64, 4, 2, 1), DLeaky,
      DConv(64, 128, 4, 2, 1), DNorm(8, 128), DLeaky,
      DConv(128, 256, 4, 2, 1), DNorm(8, 256), DLeaky,
      DConv(256, 1, 4, 2, 1)>>

\* one module of the nn.Sequential applied to a tensor of shape x
DiscLayer(x, l) ==
    CASE l.kind = "Conv2d"    -> Conv2d(x, l.cin, l.cout, l.k, l.s, l.p)
      [] l.kind = "GroupNorm" -> GroupNorm(x, l.g, l.cin)
      [] l.kind = "LeakyReLU" -> x

\* shapes of the tensors passed to PatchDiscriminator.forward
DiscInputs ==
    {<<b, c, h, w>> : b \in 1..MaxBatch, c \in {1, 3},
                      h \in (1..MaxSide) \cup {256}, w \in (1..MaxSide) \cup {256}}

\* a call discriminator(x)
DiscCall ==
    /\ disc.pc \in {"idle", "done", "raised"}
    /\ \E x \in DiscInputs : disc' = [pc |-> "run", x |-> x, i |-> 1, h |-> x]
    /\ UNCHANGED <<lpipsVars, vae>>

\* nn.Sequential.forward: the next module; after the last one, return
DiscStep ==
    /\ disc.pc = "run"
    /\ LET h == DiscLayer(disc.h, discriminator[disc.i])
       IN  disc' = [disc EXCEPT
                      !.h = h,
                      !.i = disc.i + 1,
                      !.pc = IF h = <<>> THEN "raised"
                             ELSE IF disc.i = Len(discriminator) THEN "done"
                             ELSE "run"]
    /\ UNCHANGED <<lpipsVars, vae>>

NextDisc == DiscCall \/ DiscStep

SpecDisc == InitNets /\ [][NextDisc]_vars

-----------------------------------------------------------------------------
(* Properties *)

Range(q) == {q[j] : j \in DOMAIN q}

IsRead(e) == e \in {"read_ok", "read_missing", "read_corrupt"}

IsFailedRead(e) == e \in {"read_missing", "read_corrupt"}

\* the reads, prints and fetches of a construction, in order
Protocol(ev) == SelectSeq(ev, LAMBDA e : IsRead(e) \/ e \in {"print", "fetch"})

CountEv(ev, e) == Len(SelectSeq(ev, LAMBDA x : x = e))

Reads(ev) == Len(SelectSeq(ev, IsRead))

Ended(e) == e.outcome # "running"

FirstReadFailed(e) == e.ev # <<>> /\ IsFailedRead(e.ev[1])

\* q is an initial part of: failed read, print, fetch, read
FallbackPrefix(q) ==
    /\ Len(q) <= 4
    /\ Len(q) >= 1 => IsFailedRead(q[1])
    /\ Len(q) >= 2 => q[2] = "print"
    /\ Len(q) >= 3 => q[3] = "fetch"
    /\ Len(q) >= 4 => IsRead(q[4])

\* C1: in every construction the events are: a first read of vgg.pth; only
\* if it fails a diagnostic, then the remote fetch, then one retried read.
\* The fetch happens at most once and never after a successful first read,
\* and once load_from_pretrained is over after a failed first read the
\* fetch and the retry have happened exactly once.
C1_FetchProtocol ==
    \A n \in DOMAIN log :
        LET q == Protocol(log[n].ev)
        IN  /\ q = <<"read_ok">> \/ FallbackPrefix(q)
            /\ (Ended(log[n]) /\ FirstReadFailed(log[n])) =>
                   /\ Len(q) = 4
                   /\ CountEv(q, "fetch") = 1
                   /\ Reads(q) = 2

\* C2: a first construction that starts without vgg.pth while the remote is
\* reachable makes exactly one fetch and leaves the fetched checkpoint in
\* vgg.pth; a second construction without network then fetches nothing and
\* succeeds from the cached file.
C2_FallbackCaches ==
    (Len(log) >= 1 /\ Ended(log[1]) /\ log[1].file0 = NoFile /\ log[1].net) =>
        /\ CountEv(log[1].ev, "fetch") = 1
        /\ file = RemoteBlob
        /\ (Len(log) >= 2 /\ Ended(log[2]) /\ ~log[2].net) =>
               /\ CountEv(log[2].ev, "fetch") = 0
               /\ log[2].outcome = "ok"

\* C3: whenever the first read fails (vgg.pth missing or corrupt) and the
\* remote is reachable, the fetched checkpoint ends up in vgg.pth, the
\* retried read succeeds and construction completes with the fetched
\* parameters loaded.
C3_FallbackLoads ==
    LET n == Len(log)
    IN  (n >= 1 /\ Ended(log[n]) /\ FirstReadFailed(log[n]) /\ log[n].net) =>
            /\ file = RemoteBlob
            /\ Last(log[n].ev) \in {"read_ok", "load_state_dict"}
            /\ log[n].outcome = "ok"
            /\ pc = "ready"
            /\ inst.w = RemoteBlob.w

ShapesDiffer(a, b) ==
    a.shape[2] # b.shape[2] \/ a.shape[3] # b.shape[3] \/ a.shape[4] # b.shape[4]

\* C5: an evaluation on two images that differ in channel count or in
\* height or width raises, and returns no distance.
C5_MismatchRaises ==
    (last.status # "none" /\ ShapesDiffer(last.input, last.target)) =>
        last.status = "error"

CeilDiv(h, d) == (h + d - 1) \div d

\* C6 as stated: the reconstruction has the shape of the input, for every
\* input the encoder accepts.
C6_RoundTripAnyShape ==
    vae.pc = "done" => vae.recon = vae.x

\* C6, amended: the reconstruction has the batch size and the three channels
\* of the input, and its height and width are those of the input rounded up
\* to a multiple of 8; so the shape is restored exactly when height and
\* width are multiples of 8.
C6_RoundTripMultipleOf8 ==
    vae.pc = "done" =>
        /\ vae.recon = <<vae.x[1], image_channels, 8 * CeilDiv(vae.x[3], 8),
                         8 * CeilDiv(vae.x[4], 8)>>
        /\ (vae.x[3] % 8 = 0 /\ vae.x[4] % 8 = 0) => vae.recon = vae.x

\* an 8 x 16 image has gone through encoder and decoder
C6_Witness ==
    /\ vae.pc = "done"
    /\ vae.x = <<2, 3, 8, 16>>
    /\ vae.latent = <<2, latent_dim, 1, 2>>
    /\ vae.recon = vae.x

\* the object was built by LPIPS() and its mode was never switched
DefaultBuilt == inst.use_dropout /\ inst.training

\* C7: on the object as LPIPS() builds it, an evaluation of (A, B) returns
\* the value every evaluation of (B, A) returns.
C7_Symmetric ==
    (pc = "ready" /\ DefaultBuilt /\ last.status = "ok") =>
        \A o \in forward(inst, last.target, last.input) :
            o.status = "ok" /\ o.val = last.val

SameShape(a, b) == a.shape = b.shape

\* C8 as stated: the distance of an image to itself is zero and is at most
\* its distance to any image of the same shape, whatever the weights.
C8_IdentityMinimalAnyWeights ==
    (pc = "ready" /\ last.status = "ok" /\ SameShape(last.input, last.target)) =>
        /\ last.input = last.target => last.val = 0
        /\ \A o \in forward(inst, last.input, last.input) : o.val <= last.val

NonNegativeWeights(i) == \A k \in Levels : \A c \in ModelChans : i.w[k][c] >= 0

\* C8, amended: the distance of an image to itself is zero whatever the
\* weights; it is at most its distance to any image of the same shape when
\* no weight of the five projections is negative.
C8_IdentityMinimalNonNegative ==
    (pc = "ready" /\ last.status = "ok" /\ SameShape(last.input, last.target)) =>
        /\ last.input = last.target => last.val = 0
        /\ NonNegativeWeights(inst) =>
              \A o \in forward(inst, last.input, last.input) : o.val <= last.val

\* two different images of one shape were compared under non-negative
\* weights, one of them zero, and the distance is positive
C8_Witness ==
    /\ pc = "ready"
    /\ last.status = "ok"
    /\ SameShape(last.input, last.target)
    /\ last.input # last.target
    /\ NonNegativeWeights(inst)
    /\ \E k \in Levels : inst.w[k][1] = 0
    /\ last.val > 0

ConvLayers == {j \in DOMAIN discriminator : discriminator[j].kind = "Conv2d"}

\* C9: on a (B, 3, 256, 256) image the discriminator returns (B, 1, 16, 16);
\* its stack has exactly four convolutions, each with kernel 4, stride 2 and
\* padding 1 and each halving height and width, no pooling, and a
\* convolution as its last module.
C9_ScoreMap16 ==
    /\ Cardinality(ConvLayers) = 4
    /\ \A j \in ConvLayers :
          discriminator[j].k = 4 /\ discriminator[j].s = 2 /\ discriminator[j].p = 1
    /\ \A j \in DOMAIN discriminator :
          discriminator[j].kind \in {"Conv2d", "GroupNorm", "LeakyReLU"}
    /\ Len(discriminator) \in ConvLayers
    /\ (disc.pc \in {"run", "done"} /\ disc.x[2] = 3
          /\ disc.x[3] = 256 /\ disc.x[4] = 256) =>
          LET done == Cardinality({j \in ConvLayers : j < disc.i})
          IN  /\ disc.h[3] = 256 \div (2 ^ done)
              /\ disc.h[4] = 256 \div (2 ^ done)
              /\ disc.pc = "done" => disc.h = <<disc.x[1], 1, 16, 16>>

\* the discriminator has returned on a batch of two 256 x 256 images
C9_Witness ==
    /\ disc.pc = "done"
    /\ disc.x = <<2, 3, 256, 256>>
    /\ disc.h = <<2, 1, 16, 16>>

\* C10: once LPIPS() has returned, no parameter of the object requires a
\* gradient, and no evaluation changes a parameter, a buffer or a flag of
\* the object.
C10_FrozenAndUntouched ==
    /\ [](pc = "ready" => AllFrozen(inst))
    /\ [][(pc = "ready" /\ pc' = "ready") => inst' = inst]_vars

\* the object has been evaluated, with checkpoint weights other than the
\* initial ones loaded
C10_Witness ==
    /\ pc = "ready"
    /\ last.status = "ok"
    /\ last.val # 0
    /\ AllFrozen(inst)
    /\ inst.w \notin InitProfiles

====
